---- MODULE Spec2Model ----
(***************************************************************************)
(* Model of the Salesforce Marketing Cloud connector                       *)
(*   src/marketing_cloud/api.py  (class MarketingCloud, with the           *)
(*                                customobject generator)                  *)
(*   src/smc/api.py              (the same class without the generator)    *)
(*                                                                         *)
(* Strings are sequences of one-character strings, so that split, strip,   *)
(* slicing and concatenation are computed character by character as the    *)
(* Python code computes them.  The HTTP server is the environment: every   *)
(* request is answered nondeterministically from the shapes an answer can  *)
(* take (a transport fault, a token, a body with or without each key).     *)
(***************************************************************************)
EXTENDS Integers, Sequences, FiniteSets, TLC

VARIABLES
    inURL,      \* the baseURL argument the caller passes to __init__
    chain,      \* the pages of the rowset the server holds
    status,     \* "none": not constructed, "ready": instance usable, "failed": __init__ raised
    baseURL,    \* self._baseURL
    authURL,    \* self._authURL
    auth,       \* self._auth
    token,      \* self._token
    sent,       \* the HTTP request issued last, with how the server answered it
    genlog,     \* method and answer of the requests the generator issued, in order
    gen,        \* the frame of the customobject_generator instance
    yielded     \* the values handed to the caller of the generator, in order

vars == <<inURL, chain, status, baseURL, authURL, auth, token, sent, genlog, gen, yielded>>

----------------------------------------------------------------------------
(* Bounds *)

MaxSegs == 2        \* '.'-separated segments of the URL given to __init__
MaxSlashes == 1     \* leading / trailing slashes of an endpoint passed to get
MaxPages == 2       \* pages of the rowset
MaxItems == 1       \* items of one page

----------------------------------------------------------------------------
(* Strings *)

AUTH == <<"a", "u", "t", "h">>
REST == <<"r", "e", "s", "t">>
TokenPath == <<"/", "v", "2", "/", "t", "o", "k", "e", "n">>
RowsetPrefix == <<"d", "a", "t", "a", "/", "v", "1", "/", "c", "u", "s", "t", "o", "m", "o", "b", "j", "e", "c", "t", "d", "a", "t", "a", "/", "k", "e", "y", "/">>
RowsetSuffix == <<"/", "r", "o", "w", "s", "e", "t", "?", "$", "p", "a", "g", "e", "=">>

Min(a, b) == IF a < b THEN a ELSE b

Last(s) == s[Len(s)]

\* s[:n]
Slice(s, n) == SubSeq(s, 1, Min(n, Len(s)))

\* str.lstrip(c) / str.rstrip(c) / str.strip(c)
RECURSIVE LStrip(_, _)
LStrip(s, c) == IF s # <<>> /\ Head(s) = c THEN LStrip(Tail(s), c) ELSE s

RECURSIVE RStrip(_, _)
RStrip(s, c) == IF s # <<>> /\ Last(s) = c THEN RStrip(SubSeq(s, 1, Len(s) - 1), c) ELSE s

Strip(s, c) == RStrip(LStrip(s, c), c)

\* str.split(c): always at least one segment, empty segments kept
RECURSIVE SplitFrom(_, _, _)
SplitFrom(s, c, cur) ==
    IF s = <<>> THEN <<cur>>
    ELSE IF Head(s) = c THEN <<cur>> \o SplitFrom(Tail(s), c, <<>>)
    ELSE SplitFrom(Tail(s), c, Append(cur, Head(s)))

Split(s, c) == SplitFrom(s, c, <<>>)

\* c.join(segs)
RECURSIVE Join(_, _)
Join(segs, c) ==
    IF segs = <<>> THEN <<>>
    ELSE IF Len(segs) = 1 THEN segs[1]
    ELSE segs[1] \o <<c>> \o Join(Tail(segs), c)

\* str(page) for the page numbers in use
Digits == <<"0", "1", "2", "3", "4", "5", "6", "7", "8", "9">>
Str(n) == <<Digits[n + 1]>>

\* str.replace(old, new)
RECURSIVE Replace(_, _, _)
Replace(s, old, new) ==
    IF Len(s) < Len(old) \/ old = <<>> THEN s
    ELSE IF SubSeq(s, 1, Len(old)) = old
         THEN new \o Replace(SubSeq(s, Len(old) + 1, Len(s)), old, new)
         ELSE <<Head(s)>> \o Replace(Tail(s), old, new)

----------------------------------------------------------------------------
(* Input domains *)

Segments == { <<"m">>, AUTH, <<"a", "u", "t", "h", "s">>, <<"c", "/">> }

SegLists == UNION { [1..n -> Segments] : n \in 1..MaxSegs }

\* the URLs __init__ is tried with when the URL handling is explored
AuthURLs == { Join(ss, ".") : ss \in SegLists }

\* the URLs of the runs that exercise requests and the generator
MainURLs == { <<"m", ".", "a", "u", "t", "h", ".", "c">> }

Slashes(n) == [i \in 1..n |-> "/"]

Cores == { <<"v", "/", "w">>, <<>> }

\* relative endpoints, with and without leading and trailing slashes
RelPaths == { Slashes(i) \o c \o Slashes(j) : i \in 0..MaxSlashes, j \in 0..MaxSlashes, c \in Cores }

\* endpoints that already carry the base URL b
AbsPaths(b) == { b \o <<"/", "v">>, b \o <<"/", "v", "/">> }

\* the endpoints get is tried with when the URL handling is explored
UrlPaths(b) == RelPaths \cup AbsPaths(b)

\* the endpoints of the runs that exercise requests and the generator
MainPaths(b) == { <<"/", "v", "/">> }

Credentials == { "credA", "credB" }
\* an access token names the credentials it was issued to and is one of the
\* TokensPerCred tokens the server issues to them
TokensPerCred == 2
NoToken == <<"none", 0>>
NoCred == "none"
Objects == { <<"D", "E">> }

\* the rowsets the server can hold: 1..MaxPages pages of 0..MaxItems records;
\* record j of page k is <<k, j>>, so all records of a rowset are distinct
PageOf(k, n) == [j \in 1..n |-> <<k, j>>]
Shapes == UNION { [1..n -> 0..MaxItems] : n \in 1..MaxPages }
Chains == { [k \in 1..Len(sh) |-> PageOf(k, sh[k])] : sh \in Shapes }

\* the URLs set_baseURL is called with: the URL given to __init__, and others
SetURLs == { <<"r", "/">> }

----------------------------------------------------------------------------
(* The server's answers *)

\* what the token endpoint can answer to a POST: a JSON body with access_token,
\* a JSON body without it, or a fault of the transport / of .json()
TokenResponses(cred) ==
    { [kind |-> "token", tok |-> <<cred, n>>] : n \in 1..TokensPerCred }
        \cup { [kind |-> "nokey", tok |-> NoToken], [kind |-> "error", tok |-> NoToken] }

\* the value bound to `response` in the generator
\*   kind "none": not assigned yet; "json": a parsed body; "raw": the
\*   requests.Response object that get returns
NoResponse ==
    [kind |-> "none", hasItems |-> FALSE, items |-> <<>>, links |-> "absent",
     message |-> "absent", hasNext |-> FALSE, next |-> <<>>]

RawResponse == [NoResponse EXCEPT !.kind = "raw"]

NextLink == <<"/", "n">>

\* the body of page k of the rowset as the server holds it
PageBody(k) ==
    [kind |-> "json", hasItems |-> TRUE, items |-> chain[k],
     links |-> IF k < Len(chain) THEN "next" ELSE "nonext",
     message |-> "absent", hasNext |-> FALSE, next |-> <<>>]

\* a body that says 'Not Authorized', with the other keys as given
Expired(k, hi, l, hn) ==
    [kind |-> "json", hasItems |-> hi, items |-> IF hi THEN chain[k] ELSE <<>>,
     links |-> l, message |-> "NotAuthorized", hasNext |-> hn,
     next |-> IF hn THEN NextLink ELSE <<>>]

\* the JSON bodies the rowset endpoint answers for page k: the page as held,
\* the page with one of the keys items, links, links.next, message, next
\* absent, added or different, and the bodies that say 'Not Authorized'
Bodies(k) ==
    LET p == PageBody(k)
    IN  { p,
          [p EXCEPT !.hasItems = FALSE, !.items = <<>>],
          [p EXCEPT !.links = "absent"],
          [p EXCEPT !.links = "next"],
          [p EXCEPT !.links = "nonext"],
          [p EXCEPT !.message = "Other"],
          [p EXCEPT !.hasNext = TRUE, !.next = NextLink],
          Expired(k, FALSE, "absent", FALSE),
          Expired(k, TRUE, "nonext", FALSE),
          Expired(k, TRUE, "next", FALSE),
          Expired(k, TRUE, "next", TRUE) }

\* how an answer to a rowset GET is recorded: the page as held ("page"), a
\* body saying 'Not Authorized' ("expired"), any other body ("deviant")
BodyKind(b, k) ==
    IF b = PageBody(k) THEN "page"
    ELSE IF b.message = "NotAuthorized" THEN "expired"
    ELSE "deviant"

----------------------------------------------------------------------------
(* The requests *)

\* a request as sent (method, URL, credentials posted or token carried, the
\* argument it was built from, the issuer) with its answer (resp, and the
\* token granted)
Request(m, url, cred, tok, arg, resp, got, by) ==
    [m |-> m, url |-> url, cred |-> cred, tok |-> tok, arg |-> arg,
     resp |-> resp, got |-> got, by |-> by]

NoRequest == Request("none", <<>>, NoCred, NoToken, <<>>, "none", NoToken, "none")

Count(s, m) == Len(SelectSeq(s, LAMBDA e : e.m = m))

\* the generator is between two next() calls, or does not run
Suspended == gen.pc \in {"none", "init", "Y103", "Y110", "done", "failed"}

NoFrame == [pc |-> "none", obj |-> <<>>, response |-> NoResponse, idx |-> 0]

----------------------------------------------------------------------------
(* MarketingCloud *)

\* variant: baseURL.replace('auth', 'rest'), a substring substitution
DeriveBaseURL_replace(u) == Replace(u, AUTH, REST)

\* '.'.join(['rest' if s=='auth' else s for s in baseURL.split('.')])
DeriveBaseURL(u) ==
    LET segs == Split(u, ".")
    IN  Join([i \in 1..Len(segs) |-> IF segs[i] = AUTH THEN REST ELSE segs[i]], ".")

\* requests.post(f'{self._authURL}/v2/token', data=self._auth)
TokenRequest(r, by) ==
    Request("POST", authURL \o TokenPath, auth, NoToken, <<>>, r.kind, r.tok, by)

\* variant: .json().get('access_token'), a missing key gives None
get_token_raises_lenient(r) == r.kind = "error"

\* .json()['access_token'] raises unless the answer carries the key
get_token_raises(r) == r.kind # "token"

\* variant: endpoint.lstrip('/'), trailing slashes kept
generate_endpoint_url_lstrip(endpoint) == baseURL \o <<"/">> \o LStrip(endpoint, "/")

\* f'{self._baseURL}/{endpoint.strip('/')}'
generate_endpoint_url(endpoint) == baseURL \o <<"/">> \o Strip(endpoint, "/")

\* the URL get requests for endpoint
EndpointURL(endpoint) ==
    IF Slice(endpoint, Len(baseURL)) # baseURL
    THEN generate_endpoint_url(endpoint)
    ELSE endpoint

\* requests.get(endpoint, headers={'Authorization': f'Bearer {self._token}', ...})
GetRequest(endpoint, resp, by) ==
    Request("GET", EndpointURL(endpoint), NoCred, token, endpoint, resp, NoToken, by)

\* __init__
Construct ==
    /\ status = "none"
    /\ \E c \in Credentials : \E r \in TokenResponses(c) :
        /\ baseURL' = DeriveBaseURL(inURL)
        /\ authURL' = inURL
        /\ auth' = c
        /\ sent' = Request("POST", inURL \o TokenPath, c, NoToken, <<>>, r.kind, r.tok, "ctor")
        /\ IF get_token_raises(r)
           THEN status' = "failed" /\ token' = token
           ELSE status' = "ready" /\ token' = r.tok
    /\ UNCHANGED <<inURL, chain, genlog, gen, yielded>>

\* variant: the new credentials are used at once to fetch a token
set_credentials_reauth ==
    /\ status = "ready" /\ Suspended
    /\ \E c \in Credentials : auth' = c /\ token' = <<c, 1>>
    /\ UNCHANGED <<inURL, chain, status, baseURL, authURL, sent, genlog, gen, yielded>>

set_credentials ==
    /\ status = "ready" /\ Suspended
    /\ \E c \in Credentials : auth' = c
    /\ UNCHANGED <<inURL, chain, status, baseURL, authURL, token, sent, genlog, gen, yielded>>

set_baseURL ==
    /\ status = "ready" /\ Suspended
    /\ \E u \in SetURLs \cup {inURL} : baseURL' = u
    /\ UNCHANGED <<inURL, chain, status, authURL, auth, token, sent, genlog, gen, yielded>>

\* refresh_token called by the user of the instance
refresh_token ==
    /\ status = "ready" /\ Suspended
    /\ \E r \in TokenResponses(auth) :
        /\ sent' = TokenRequest(r, "caller")
        /\ token' = IF get_token_raises(r) THEN token ELSE r.tok
    /\ UNCHANGED <<inURL, chain, status, baseURL, authURL, auth, genlog, gen, yielded>>

\* get called by the user of the instance; whatever the server answers is
\* returned (or raised) to the caller and changes nothing in the instance
get(E) ==
    /\ status = "ready" /\ Suspended
    /\ \E e \in E : sent' = GetRequest(e, "raw", "caller")
    /\ UNCHANGED <<inURL, chain, status, baseURL, authURL, auth, token, genlog, gen, yielded>>

----------------------------------------------------------------------------
(* customobject_generator: one action per line of the body, gen.pc naming   *)
(* the line about to run; "Y103" and "Y110" are the frame suspended at the  *)
(* yield of that line, "done" the generator returned, "failed" an exception *)
(* left the frame                                                           *)

\* `yielded` keeps the first YieldCap values handed out; later ones are
\* handed out as well and not recorded
YieldCap == MaxPages * MaxItems + 1

Yield(v) == IF Len(yielded) < YieldCap THEN Append(yielded, v) ELSE yielded

\* the generator issues request q
Send(q) == sent' = q /\ genlog' = Append(genlog, [m |-> q.m, resp |-> q.resp])

\* variant: the failed run is started over
Raise_restart(frame) == [frame EXCEPT !.pc = "init"]

\* an exception leaves the generator: the frame is finished
Raise(frame) == [frame EXCEPT !.pc = "failed"]

\* variant: any parsed body counts as expired
has_token_expired_any(response) == response.kind = "json"

\* 'message' in response and response['message'] == 'Not Authorized'
\* (a requests.Response holds no str 'message' among its content chunks)
has_token_expired(response) ==
    response.kind = "json" /\ response.message = "NotAuthorized"

\* f'data/v1/customobjectdata/key/{object}/rowset?$page={page}'
RowsetEndpoint(object, page) == RowsetPrefix \o object \o RowsetSuffix \o Str(page)

\* customobject_generator(object): the generator object is created, no line runs
customobject_generator ==
    /\ status = "ready" /\ gen.pc = "none"
    /\ \E o \in Objects : gen' = [NoFrame EXCEPT !.pc = "init", !.obj = o]
    /\ UNCHANGED <<inURL, chain, status, baseURL, authURL, auth, token, sent, genlog, yielded>>

\* variant: the generator starts without refreshing the token
GenLine100_norefresh ==
    /\ gen.pc = "init"
    /\ gen' = [gen EXCEPT !.pc = "L101"]
    /\ UNCHANGED <<inURL, chain, status, baseURL, authURL, auth, token, sent, genlog, yielded>>

\* line 100: self.refresh_token()
GenLine100 ==
    /\ gen.pc = "init"
    /\ \E r \in TokenResponses(auth) :
        /\ Send(TokenRequest(r, "gen"))
        /\ IF get_token_raises(r)
           THEN token' = token /\ gen' = Raise(gen)
           ELSE token' = r.tok /\ gen' = [gen EXCEPT !.pc = "L101"]
    /\ UNCHANGED <<inURL, chain, status, baseURL, authURL, auth, yielded>>

\* line 101: response = self._get_customobject(object), page=1
GenLine101 ==
    /\ gen.pc = "L101"
    /\ \/ /\ Send(GetRequest(RowsetEndpoint(gen.obj, 1), "error", "gen"))
          /\ gen' = Raise(gen)
       \/ \E b \in Bodies(1) :
          /\ Send(GetRequest(RowsetEndpoint(gen.obj, 1), BodyKind(b, 1), "gen"))
          /\ gen' = [gen EXCEPT !.pc = "L103", !.response = b]
    /\ UNCHANGED <<inURL, chain, status, baseURL, authURL, auth, token, yielded>>

\* line 103: yield response['items']
GenLine103 ==
    /\ gen.pc = "L103"
    /\ IF gen.response.hasItems
       THEN /\ yielded' = Yield([kind |-> "list", v |-> gen.response.items])
            /\ gen' = [gen EXCEPT !.pc = "Y103"]
       ELSE /\ yielded' = yielded
            /\ gen' = Raise(gen)
    /\ UNCHANGED <<inURL, chain, status, baseURL, authURL, auth, token, sent, genlog>>

\* line 105: while 'next' in response['links'], on resuming from line 103
\* and after the for loop of line 109
GenLine105 ==
    /\ gen.pc \in {"Y103", "L105"}
    /\ gen' = IF gen.response.kind # "json" \/ gen.response.links = "absent" THEN Raise(gen)
              ELSE IF gen.response.links = "next" THEN [gen EXCEPT !.pc = "L106"]
              ELSE [gen EXCEPT !.pc = "done"]
    /\ UNCHANGED <<inURL, chain, status, baseURL, authURL, auth, token, sent, genlog, yielded>>

\* line 106: while self._has_token_expired(response)
GenLine106 ==
    /\ gen.pc = "L106"
    /\ gen' = IF has_token_expired(gen.response)
              THEN [gen EXCEPT !.pc = "L107"]
              ELSE [gen EXCEPT !.pc = "L109", !.idx = 1]
    /\ UNCHANGED <<inURL, chain, status, baseURL, authURL, auth, token, sent, genlog, yielded>>

\* line 107: self.refresh_token()
GenLine107 ==
    /\ gen.pc = "L107"
    /\ \E r \in TokenResponses(auth) :
        /\ Send(TokenRequest(r, "gen"))
        /\ IF get_token_raises(r)
           THEN token' = token /\ gen' = Raise(gen)
           ELSE token' = r.tok /\ gen' = [gen EXCEPT !.pc = "L108"]
    /\ UNCHANGED <<inURL, chain, status, baseURL, authURL, auth, yielded>>

\* line 108: response = self.get(response['next'])
GenLine108 ==
    /\ gen.pc = "L108"
    /\ IF gen.response.kind # "json" \/ ~gen.response.hasNext
       THEN UNCHANGED <<sent, genlog>> /\ gen' = Raise(gen)
       ELSE \/ /\ Send(GetRequest(gen.response.next, "error", "gen"))
               /\ gen' = Raise(gen)
            \/ /\ Send(GetRequest(gen.response.next, "raw", "gen"))
               /\ gen' = [gen EXCEPT !.pc = "L106", !.response = RawResponse]
    /\ UNCHANGED <<inURL, chain, status, baseURL, authURL, auth, token, yielded>>

\* lines 109-110: for item in response['items']: yield item
GenLine109 ==
    /\ gen.pc \in {"L109", "Y110"}
    /\ IF gen.response.kind # "json" \/ ~gen.response.hasItems
       THEN yielded' = yielded /\ gen' = Raise(gen)
       ELSE IF gen.idx <= Len(gen.response.items)
       THEN /\ yielded' = Yield([kind |-> "item", v |-> <<gen.response.items[gen.idx]>>])
            /\ gen' = [gen EXCEPT !.pc = "Y110", !.idx = gen.idx + 1]
       ELSE /\ yielded' = yielded
            /\ gen' = [gen EXCEPT !.pc = "L105"]
    /\ UNCHANGED <<inURL, chain, status, baseURL, authURL, auth, token, sent, genlog>>

\* the caller asks the generator for its next value (and the frame runs on)
GenStep ==
    \/ GenLine100 \/ GenLine101 \/ GenLine103 \/ GenLine105
    \/ GenLine106 \/ GenLine107 \/ GenLine108 \/ GenLine109

----------------------------------------------------------------------------
(* Specifications *)

InitWith(U) ==
    /\ inURL \in U
    /\ chain \in Chains
    /\ status = "none"
    /\ baseURL = <<>>
    /\ authURL = <<>>
    /\ auth = NoCred
    /\ token = NoToken
    /\ sent = NoRequest
    /\ genlog = <<>>
    /\ gen = NoFrame
    /\ yielded = <<>>

\* the instance in use: requests, credentials, the generator
Init == InitWith(MainURLs)

Next ==
    \/ Construct
    \/ set_credentials
    \/ set_baseURL
    \/ refresh_token
    \/ get(MainPaths(baseURL))
    \/ customobject_generator
    \/ GenLine100
    \/ GenLine101
    \/ GenLine103
    \/ GenLine105
    \/ GenLine106
    \/ GenLine107
    \/ GenLine108
    \/ GenLine109

Spec == Init /\ [][Next]_vars

\* the caller keeps draining the generator
FairSpec == Spec /\ WF_vars(GenStep)

\* the URL handling: construction and get over the URL and endpoint domains
UrlInit == InitWith(AuthURLs) /\ chain = <<<<>>>>

UrlNext ==
    \/ Construct
    \/ set_credentials
    \/ set_baseURL
    \/ refresh_token
    \/ get(UrlPaths(baseURL))

UrlSpec == UrlInit /\ [][UrlNext]_vars

----------------------------------------------------------------------------
(* Properties *)

\* every request of the generator was answered as the rowset is held: a token
\* for each POST, the page itself for the rowset GET
GenFaithful == \A i \in 1..Len(genlog) : genlog[i].resp \in {"token", "page", "raw"}

\* the records of pages k..Len(chain), each as an individual item, in order
RECURSIVE RecordsFrom(_)
RecordsFrom(k) ==
    IF k > Len(chain) THEN <<>>
    ELSE [j \in 1..Len(chain[k]) |-> [kind |-> "item", v |-> <<chain[k][j]>>]] \o RecordsFrom(k + 1)

IsPrefix(s, t) == Len(s) <= Len(t) /\ SubSeq(t, 1, Len(s)) = s

\* C1: over a faithfully served chain of pages the generator hands out each
\* record of each page exactly once, as an individual item, in page order and
\* in the order of items: what it has handed out is always a prefix of the
\* records of the chain, and all of them once it has ended.
C1_YieldsEachRecordOnce ==
    GenFaithful =>
        /\ IsPrefix(yielded, RecordsFrom(1))
        /\ gen.pc = "done" => yielded = RecordsFrom(1)

\* C2: a generator that is drained over a faithfully served finite chain of
\* pages eventually reaches its end.
C2_Terminates == (gen.pc = "init") ~> (gen.pc = "done" \/ ~GenFaithful)

\* C3: every GET of the generator directly follows a token POST of the
\* generator that was granted, so the generator has refreshed the token at
\* least as often as it has fetched.
C3_RefreshBeforeEveryGet ==
    /\ \A i \in 1..Len(genlog) :
          genlog[i].m = "GET" =>
              i > 1 /\ genlog[i - 1].m = "POST" /\ genlog[i - 1].resp = "token"
    /\ Count(genlog, "POST") >= Count(genlog, "GET")

C3_Witness == Count(genlog, "GET") = 2 /\ Count(genlog, "POST") = 2

\* C4: when the only page has no next link, the generator ends having handed
\* out exactly the items of that page, each individually, with one GET issued.
C4_SinglePage ==
    (GenFaithful /\ Len(chain) = 1 /\ gen.pc = "done") =>
        /\ yielded = RecordsFrom(1)
        /\ Count(genlog, "GET") = 1

\* C5: when the token endpoint answers the construction without access_token,
\* __init__ raises: no instance is usable, the token POST is the only request
\* ever made, and no generator exists.
C5_NoTokenNoInstance ==
    /\ (sent.by = "ctor" /\ sent.resp = "nokey") => status = "failed"
    /\ status = "failed" =>
          /\ sent.by = "ctor" /\ sent.m = "POST"
          /\ genlog = <<>> /\ gen.pc = "none"
          /\ token = NoToken

C5_Witness == status = "failed" /\ sent.resp = "nokey"

\* a step in which a request is issued (a request equal to the last one, by
\* the same issuer, leaves `sent` as it is)
Issued == sent' # sent \/ genlog' # genlog

\* C6: replacing the credentials issues no request and leaves the token and
\* both URLs as they are; every GET carries the token held, which only a
\* granted token POST replaces, and every token POST carries the credentials
\* stored at that time and goes to the auth URL.
C6_SetCredentialsFrame ==
    [][status = "ready" =>
        /\ auth' # auth =>
              /\ ~Issued /\ sent' = sent
              /\ token' = token /\ baseURL' = baseURL /\ authURL' = authURL
        /\ (Issued /\ sent'.m = "GET") => (sent'.tok = token /\ token' = token)
        /\ (Issued /\ sent'.m = "POST") =>
              (sent'.cred = auth /\ sent'.url = authURL \o TokenPath)
        /\ token' # token =>
              (Issued /\ sent'.m = "POST" /\ sent'.resp = "token" /\ token' = sent'.got)
    ]_vars

\* the credentials were replaced and a GET went out with the token issued to
\* the former ones
C6_Witness ==
    /\ status = "ready" /\ sent.m = "GET" /\ sent.by = "caller"
    /\ sent.tok = token /\ token[1] # auth

\* endpoint e does not start with the base URL: get treats it as a relative path
Relative(e) == Slice(e, Len(baseURL)) # baseURL

\* url is b, one '/', and a core that neither starts nor ends with '/', and
\* e is that core between some leading and some trailing slashes
JoinedOnce(b, e, url) ==
    LET core == SubSeq(url, Len(b) + 2, Len(url))
    IN  /\ Len(url) >= Len(b) + 1
        /\ SubSeq(url, 1, Len(b)) = b
        /\ url[Len(b) + 1] = "/"
        /\ core # <<>> => (Head(core) # "/" /\ Last(core) # "/")
        /\ \E i, j \in 0..Len(e) : e = Slashes(i) \o core \o Slashes(j)

\* the '/' that joins b and the path has no '/' next to it
SingleSlashAtJoin(b, url) ==
    /\ b # <<>> => url[Len(b)] # "/"
    /\ Len(url) > Len(b) + 1 => url[Len(b) + 2] # "/"

\* C7 as stated: for every base URL and every relative endpoint, get requests
\* base URL, one '/', and the endpoint without its leading and trailing
\* slashes, and no slash is duplicated or missing at the join.
C7_NoDuplicateSlash ==
    [][(sent' # sent /\ sent'.m = "GET" /\ Relative(sent'.arg)) =>
        /\ JoinedOnce(baseURL, sent'.arg, sent'.url)
        /\ SingleSlashAtJoin(baseURL, sent'.url)
    ]_vars

\* C7, amended: for every base URL and every relative endpoint, get requests
\* base URL, one '/', and the endpoint without its leading and trailing
\* slashes; the joining '/' has no other '/' next to it whenever the base URL
\* does not itself end with '/'.
C7_JoinURL ==
    [][(sent' # sent /\ sent'.m = "GET" /\ Relative(sent'.arg)) =>
        /\ JoinedOnce(baseURL, sent'.arg, sent'.url)
        /\ (baseURL # <<>> /\ Last(baseURL) # "/") => SingleSlashAtJoin(baseURL, sent'.url)
    ]_vars

\* a relative endpoint with leading and trailing slashes was requested
C7_Witness ==
    /\ sent.m = "GET" /\ sent.arg = <<"/", "v", "/", "w", "/">>
    /\ sent.url = baseURL \o <<"/", "v", "/", "w">>
    /\ baseURL = <<"m", ".", "r", "e", "s", "t">>

\* C8: at construction the data-API base URL has the '.'-separated segments of
\* the URL given, in number and order, with 'rest' in place of each segment
\* that is exactly 'auth'; the auth URL stored, and used for the token POST,
\* is the URL given.
C8_AuthToRest ==
    [][(status = "none" /\ status' # "none") =>
        LET a == Split(inURL, ".")
            b == Split(baseURL', ".")
        IN  /\ Len(b) = Len(a)
            /\ \A i \in 1..Len(a) : b[i] = IF a[i] = AUTH THEN REST ELSE a[i]
            /\ authURL' = inURL
            /\ sent'.url = inURL \o TokenPath
    ]_vars

\* constructed from 'auths.auth': only the segment 'auth' became 'rest'
C8_Witness ==
    /\ status = "ready"
    /\ authURL = <<"a", "u", "t", "h", "s", ".", "a", "u", "t", "h">>
    /\ baseURL = <<"a", "u", "t", "h", "s", ".", "r", "e", "s", "t">>

\* an answer that makes the request raise
Fault(q) == q.resp \in {"nokey", "error"}

\* C9: a request of the generator that fails ends the generator with nothing
\* more handed out; a value is handed out only from a body that has items;
\* once the generator has failed it hands out nothing and requests nothing.
C9_FaultEndsGenerator ==
    [][/\ (genlog' # genlog /\ Fault(Last(genlog'))) =>
              (gen'.pc = "failed" /\ yielded' = yielded)
       /\ (gen'.pc \in {"Y103", "Y110"} /\ gen' # gen) =>
              (gen.response.kind = "json" /\ gen.response.hasItems)
       /\ gen.pc = "failed" =>
              (gen' = gen /\ yielded' = yielded /\ genlog' = genlog)
    ]_vars

\* the generator failed after it had handed out a value, and the caller went on
C9_Witness == gen.pc = "failed" /\ Len(yielded) >= 1 /\ sent.by = "caller"

====
